---- MODULE Spec2Model ----
(***************************************************************************)
(* A model of DirGenie (dirgenie.py): the extension classifier             *)
(* get_file_category and the organizer organize_directory, run by main.    *)
(*                                                                         *)
(* Strings are sequences of one-character strings, so that str.lower,      *)
(* str.upper, Path.stem, Path.suffix and the f-string that builds          *)
(* stem_<counter>suffix are computed character by character.               *)
(***************************************************************************)
EXTENDS Integers, Sequences, FiniteSets, TLC

(***************************************************************************)
(* Bounds of the model.                                                    *)
(***************************************************************************)
\* largest number of regular files directly in the directory at the start
MaxFiles == 3
\* largest number of entries that the sub-folders hold at the start
MaxPre == 2
\* largest number of characters after the dot of a classified extension
MaxExtLen == 2

(***************************************************************************)
(* Characters and the str methods used by the program.                     *)
(***************************************************************************)
LowerLetters ==
  << "a","b","c","d","e","f","g","h","i","j","k","l","m",
     "n","o","p","q","r","s","t","u","v","w","x","y","z" >>

UpperLetters ==
  << "A","B","C","D","E","F","G","H","I","J","K","L","M",
     "N","O","P","Q","R","S","T","U","V","W","X","Y","Z" >>

\* U+212A KELVIN SIGN: an upper-case letter whose lower case is ASCII "k"
KelvinSign == "U+212A"

\* str.lower() on one character
LowerChar(c) ==
  IF \E i \in DOMAIN UpperLetters : UpperLetters[i] = c
  THEN LowerLetters[CHOOSE i \in DOMAIN UpperLetters : UpperLetters[i] = c]
  ELSE IF c = KelvinSign THEN "k" ELSE c

\* str.upper() on one character
UpperChar(c) ==
  IF \E i \in DOMAIN LowerLetters : LowerLetters[i] = c
  THEN UpperLetters[CHOOSE i \in DOMAIN LowerLetters : LowerLetters[i] = c]
  ELSE c

\* str.lower()
lower(s) == [i \in DOMAIN s |-> LowerChar(s[i])]

\* str.upper()
upper(s) == [i \in DOMAIN s |-> UpperChar(s[i])]

\* s[1:]
DropFirst(s) == IF s = << >> THEN << >> ELSE Tail(s)

DigitChars == << "0","1","2","3","4","5","6","7","8","9" >>

\* the decimal text of a counter, as the f-string formats it
RECURSIVE Str(_)
Str(n) ==
  IF n < 10 THEN << DigitChars[n + 1] >>
  ELSE Str(n \div 10) \o << DigitChars[(n % 10) + 1] >>

\* str.rfind("."): the 1-based index of the last dot, 0 when there is none
RFindDot(s) ==
  IF \E i \in DOMAIN s : s[i] = "."
  THEN CHOOSE i \in DOMAIN s : s[i] = "." /\ \A j \in DOMAIN s : s[j] = "." => j <= i
  ELSE 0

\* Path.suffix of a file name: empty unless a dot lies strictly inside the name
suffix(name) ==
  LET i == RFindDot(name)
  IN  IF 1 < i /\ i < Len(name) THEN SubSeq(name, i, Len(name)) ELSE << >>

\* Path.stem of a file name
stem(name) ==
  LET i == RFindDot(name)
  IN  IF 1 < i /\ i < Len(name) THEN SubSeq(name, 1, i - 1) ELSE name

(***************************************************************************)
(* The classifier.                                                         *)
(***************************************************************************)
FilesSuffix == <<"_","F","i","l","e","s">>

NoExtension == <<"N","o","_","E","x","t","e","n","s","i","o","n">>

\* the table of get_file_category, in the order the dict is iterated
categories ==
  << [name |-> <<"I","m","a","g","e","s">>,
      extensions |-> { <<".","j","p","g">>, <<".","j","p","e","g">>, <<".","p","n","g">>,
                       <<".","g","i","f">>, <<".","b","m","p">>, <<".","t","i","f","f">>,
                       <<".","s","v","g">>, <<".","w","e","b","p">>, <<".","i","c","o">>,
                       <<".","r","a","w">> }],
     [name |-> <<"D","o","c","u","m","e","n","t","s">>,
      extensions |-> { <<".","p","d","f">>, <<".","d","o","c">>, <<".","d","o","c","x">>,
                       <<".","t","x","t">>, <<".","r","t","f">>, <<".","o","d","t">>,
                       <<".","p","a","g","e","s">>, <<".","t","e","x">> }],
     [name |-> <<"S","p","r","e","a","d","s","h","e","e","t","s">>,
      extensions |-> { <<".","x","l","s">>, <<".","x","l","s","x">>, <<".","c","s","v">>,
                       <<".","o","d","s">>, <<".","n","u","m","b","e","r","s">> }],
     [name |-> <<"P","r","e","s","e","n","t","a","t","i","o","n","s">>,
      extensions |-> { <<".","p","p","t">>, <<".","p","p","t","x">>, <<".","o","d","p">>,
                       <<".","k","e","y">> }],
     [name |-> <<"V","i","d","e","o","s">>,
      extensions |-> { <<".","m","p","4">>, <<".","a","v","i">>, <<".","m","k","v">>,
                       <<".","m","o","v">>, <<".","w","m","v">>, <<".","f","l","v">>,
                       <<".","w","e","b","m">>, <<".","m","4","v">>, <<".","3","g","p">> }],
     [name |-> <<"A","u","d","i","o">>,
      extensions |-> { <<".","m","p","3">>, <<".","w","a","v">>, <<".","f","l","a","c">>,
                       <<".","a","a","c">>, <<".","o","g","g">>, <<".","w","m","a">>,
                       <<".","m","4","a">>, <<".","o","p","u","s">> }],
     [name |-> <<"A","r","c","h","i","v","e","s">>,
      extensions |-> { <<".","z","i","p">>, <<".","r","a","r">>, <<".","7","z">>,
                       <<".","t","a","r">>, <<".","g","z">>, <<".","b","z","2">>,
                       <<".","x","z">>, <<".","d","m","g">>, <<".","i","s","o">> }],
     [name |-> <<"C","o","d","e">>,
      extensions |-> { <<".","p","y">>, <<".","j","s">>, <<".","h","t","m","l">>,
                       <<".","c","s","s">>, <<".","j","a","v","a">>, <<".","c","p","p">>,
                       <<".","c">>, <<".","h">>, <<".","p","h","p">>,
                       <<".","r","b">>, <<".","g","o">>, <<".","r","s">>,
                       <<".","s","w","i","f","t">> }],
     [name |-> <<"E","x","e","c","u","t","a","b","l","e","s">>,
      extensions |-> { <<".","e","x","e">>, <<".","m","s","i">>, <<".","d","e","b">>,
                       <<".","r","p","m">>, <<".","d","m","g">>, <<".","p","k","g">>,
                       <<".","a","p","p">> }],
     [name |-> <<"D","a","t","a">>,
      extensions |-> { <<".","j","s","o","n">>, <<".","x","m","l">>, <<".","y","a","m","l">>,
                       <<".","y","m","l">>, <<".","s","q","l">>, <<".","d","b">>,
                       <<".","s","q","l","i","t","e">> }] >>

\* the name an extension gets when no category applies: e[1:].upper() + '_Files'
DerivedName(e) == IF e # << >> THEN upper(DropFirst(e)) \o FilesSuffix ELSE NoExtension

\* get_file_category(extension)
get_file_category(extension) ==
  LET extension_lower == lower(extension)
      hits == { i \in DOMAIN categories : extension_lower \in categories[i].extensions }
  IN  IF hits # {}
      THEN categories[CHOOSE i \in hits : \A j \in hits : i <= j].name
      ELSE DerivedName(extension_lower)

\* the group of one file of organize_directory's grouping loop
GroupOf(extension, use_cat) ==
  IF use_cat THEN get_file_category(extension) ELSE DerivedName(extension)

(***************************************************************************)
(* The names the model draws the initial directory from.                   *)
(***************************************************************************)
a_txt == <<"a",".","t","x","t">>

a_1_txt == <<"a","_","1",".","t","x","t">>

b_JPG == <<"b",".","J","P","G">>

Images == <<"I","m","a","g","e","s">>

Documents == <<"D","o","c","u","m","e","n","t","s">>

TXT_Files == <<"T","X","T","_","F","i","l","e","s">>

\* names of the regular files that may lie directly in the directory
NamePool == { a_txt, a_1_txt, b_JPG, NoExtension, Images }

\* names of the sub-folders that may exist before the first call
FolderPool == { Documents, TXT_Files }

\* names of the entries those sub-folders may hold before the first call
PreEntryPool == { a_txt, a_1_txt }

\* the origin recorded for an entry that was in a sub-folder from the start
PreExisting == << >>

\* all orders in which a set of names can be listed
Orders(S) ==
  { s \in [1..Cardinality(S) -> S] : \A i, j \in DOMAIN s : i # j => s[i] # s[j] }

RECURSIVE Sum(_, _)
Sum(f, D) ==
  IF D = {} THEN 0
  ELSE LET d == CHOOSE x \in D : TRUE IN Cardinality(f[d]) + Sum(f, D \ {d})

VARIABLES
  target,         \* what directory_path names: "missing", "file" or "dir"
  rootFiles,      \* names of the regular files directly in the directory
  folders,        \* sub-folder name -> set of entries [name, src]
  listing,        \* the order in which iterdir yields the directory's files
  pc,             \* position of the call
  dry_run,        \* argument dry_run
  use_categories, \* argument use_categories
  files,          \* the list files
  file_groups,    \* the ordered mapping file_groups, a sequence of [name, files]
  gi,             \* index of the group of the outer loop
  fi,             \* index of the file of the inner loop
  destination,    \* the local destination (its name) after the collision loop
  moved_count,    \* the local moved_count
  ret,            \* the value returned: "none", "True" or "False"
  exit_code,      \* exit code of main, -1 while the process runs
  plan,           \* the "Would move" / "Moved" lines printed, [src, group, dest]
  errors,         \* the files of the "Error moving" lines printed
  before,         \* the file system when the call started
  first,          \* what the first of two consecutive calls did
  extension,      \* classifier run: the extension classified
  by_category,    \* classifier run: the mode
  group_name      \* classifier run: the group computed, empty before

fsVars == << target, rootFiles, folders, listing >>

callVars == << pc, dry_run, use_categories, files, file_groups, gi, fi,
               destination, moved_count, ret, exit_code, plan, errors >>

classVars == << extension, by_category, group_name >>

vars == << fsVars, callVars, before, first, classVars >>

(***************************************************************************)
(* The file system calls of organize_directory.                            *)
(***************************************************************************)
EntryNames(fs, g) == IF g \in DOMAIN fs THEN { e.name : e \in fs[g] } ELSE {}

\* a variant that never sees an existing entry
ExistsNever(fs, g, name) == FALSE

\* (folder_path / name).exists(): false when the folder is missing or is a
\* regular file
Exists(fs, g, name) == name \in EntryNames(fs, g)

\* the f-string of the collision loop
Candidate(original, counter) ==
  stem(original) \o <<"_">> \o Str(counter) \o suffix(original)

\* a variant that tests for a collision once instead of looping
ResolveOnce(fs, g, original, dest, counter) ==
  IF Exists(fs, g, dest) THEN Candidate(original, counter) ELSE dest

\* the collision loop: while destination.exists(): ...
RECURSIVE Resolve(_, _, _, _, _)
Resolve(fs, g, original, dest, counter) ==
  IF Exists(fs, g, dest)
  THEN Resolve(fs, g, original, Candidate(original, counter), counter + 1)
  ELSE dest

\* the destination the loop leaves for the file named name
ResolvedName(fs, g, name) == Resolve(fs, g, name, name, 1)

\* shutil.move(file, folder / dest) when it succeeds: a rename, which replaces
\* an entry already at the destination
MoveInto(fs, g, name, dest) ==
  [fs EXCEPT ![g] = { e \in @ : e.name # dest } \cup { [name |-> dest, src |-> name] }]

\* folder_path.mkdir(exist_ok=True) raises FileExistsError when the path is
\* taken by something that is not a directory
MkdirRaises(g) == g \in rootFiles

\* folder_path.mkdir(exist_ok=True) when it does not raise
Mkdir(fs, g) == IF g \in DOMAIN fs THEN fs ELSE (g :> {}) @@ fs

(***************************************************************************)
(* Grouping: file_groups[group_name].append(file_path) over files.         *)
(***************************************************************************)
AddToGroup(groups, g, f) ==
  IF \E i \in DOMAIN groups : groups[i].name = g
  THEN [i \in DOMAIN groups |->
          IF groups[i].name = g
          THEN [groups[i] EXCEPT !.files = Append(@, f)]
          ELSE groups[i]]
  ELSE Append(groups, [name |-> g, files |-> << f >>])

RECURSIVE GroupFiles(_, _, _)
GroupFiles(fileList, use_cat, groups) ==
  IF fileList = << >> THEN groups
  ELSE GroupFiles(Tail(fileList), use_cat,
                  AddToGroup(groups, GroupOf(suffix(Head(fileList)), use_cat),
                             Head(fileList)))

\* files = [f for f in directory.iterdir() if f.is_file()]
ListFiles == SelectSeq(listing, LAMBDA n : n \in rootFiles)

(***************************************************************************)
(* Initial states.                                                         *)
(***************************************************************************)
NoCall == [called |-> FALSE, dry_run |-> FALSE, use_categories |-> FALSE,
           ret |-> "none", pc |-> "idle", plan |-> << >>, errors |-> {},
           files |-> << >>]

InitCall ==
  /\ pc = "idle"
  /\ dry_run = FALSE
  /\ use_categories = FALSE
  /\ files = << >>
  /\ file_groups = << >>
  /\ gi = 0
  /\ fi = 0
  /\ destination = << >>
  /\ moved_count = 0
  /\ ret = "none"
  /\ exit_code = -1
  /\ plan = << >>
  /\ errors = {}
  /\ first = NoCall

InitClassIdle ==
  /\ extension = << >>
  /\ by_category = FALSE
  /\ group_name = << >>

InitFs ==
  /\ target \in { "missing", "file", "dir" }
  /\ \E R \in SUBSET NamePool :
       /\ Cardinality(R) <= MaxFiles
       /\ target # "dir" => R = {}
       /\ rootFiles = R
       /\ listing \in Orders(R)
  /\ \E D \in SUBSET FolderPool :
       /\ target # "dir" => D = {}
       /\ \E c \in [D -> SUBSET PreEntryPool] :
            /\ Sum(c, D) <= MaxPre
            /\ folders = [g \in D |-> { [name |-> n, src |-> PreExisting] : n \in c[g] }]
  /\ before = [rootFiles |-> rootFiles, folders |-> folders]

Init == InitFs /\ InitCall /\ InitClassIdle

(***************************************************************************)
(* organize_directory and main, one action per step.                       *)
(***************************************************************************)
\* main calls organize_directory(directory_path, use_categories, dry_run)
Call(d, c) ==
  /\ pc = "idle"
  /\ pc' = "validate"
  /\ dry_run' = d
  /\ use_categories' = c
  /\ before' = [rootFiles |-> rootFiles, folders |-> folders]
  /\ UNCHANGED << fsVars, files, file_groups, gi, fi, destination, moved_count,
                  ret, exit_code, plan, errors, first, classVars >>

\* a variant without the is_dir() test
ExistsOnly == target # "missing"

\* directory.exists() and directory.is_dir()
IsDirectory == target = "dir"

\* the directory is missing or is not a directory: return False
ValidateFail ==
  /\ pc = "validate"
  /\ ~IsDirectory
  /\ ret' = "False"
  /\ pc' = "returned"
  /\ UNCHANGED << fsVars, dry_run, use_categories, files, file_groups, gi, fi,
                  destination, moved_count, exit_code, plan, errors, before,
                  first, classVars >>

\* list the files; none: return True; otherwise group them and set moved_count
Enumerate ==
  /\ pc = "validate"
  /\ IsDirectory
  /\ files' = ListFiles
  /\ IF ListFiles = << >>
     THEN /\ ret' = "True"
          /\ pc' = "returned"
          /\ UNCHANGED << file_groups, gi, fi >>
     ELSE /\ file_groups' = GroupFiles(ListFiles, use_categories, << >>)
          /\ gi' = 1
          /\ fi' = 1
          /\ pc' = "folder"
          /\ ret' = ret
  /\ moved_count' = 0
  /\ UNCHANGED << fsVars, dry_run, use_categories, destination, exit_code, plan,
                  errors, before, first, classVars >>

\* a variant that makes the folder in a dry run too
MakesFolderAlways == TRUE

\* if not dry_run: the folder is made
MakesFolder == ~dry_run

\* a variant without the increment
CountMoveNot(n) == n

\* moved_count += 1
CountMove(n) == n + 1

\* head of the outer loop: folder_path.mkdir(exist_ok=True) unless dry_run
CreateFolder ==
  /\ pc = "folder"
  /\ LET g == file_groups[gi].name
     IN  IF ~MakesFolder
         THEN /\ pc' = "file"
              /\ UNCHANGED folders
         ELSE IF MkdirRaises(g)
         THEN /\ pc' = "raised"
              /\ UNCHANGED folders
         ELSE /\ pc' = "file"
              /\ folders' = Mkdir(folders, g)
  /\ UNCHANGED << target, rootFiles, listing, dry_run, use_categories, files,
                  file_groups, gi, fi, destination, moved_count, ret, exit_code,
                  plan, errors, before, first, classVars >>

\* the loop variables after the file at (gi, fi)
Advance ==
  IF fi < Len(file_groups[gi].files)
  THEN /\ fi' = fi + 1
       /\ gi' = gi
       /\ pc' = "file"
  ELSE IF gi < Len(file_groups)
  THEN /\ fi' = 1
       /\ gi' = gi + 1
       /\ pc' = "folder"
  ELSE /\ fi' = fi
       /\ gi' = gi
       /\ pc' = "report"

CurrentGroup == file_groups[gi].name

CurrentFile == file_groups[gi].files[fi]

\* dry run: resolve the destination and print "Would move"
WouldMove ==
  /\ pc = "file"
  /\ dry_run
  /\ LET dest == ResolvedName(folders, CurrentGroup, CurrentFile)
     IN  /\ destination' = dest
         /\ plan' = Append(plan, [src |-> CurrentFile, group |-> CurrentGroup,
                                  dest |-> dest])
  /\ Advance
  /\ UNCHANGED << fsVars, dry_run, use_categories, files, file_groups,
                  moved_count, ret, exit_code, errors, before, first, classVars >>

\* resolve the destination, shutil.move succeeds: print "Moved", count it
MoveOk ==
  /\ pc = "file"
  /\ ~dry_run
  /\ LET dest == ResolvedName(folders, CurrentGroup, CurrentFile)
     IN  /\ destination' = dest
         /\ rootFiles' = rootFiles \ { CurrentFile }
         /\ folders' = MoveInto(folders, CurrentGroup, CurrentFile, dest)
         /\ plan' = Append(plan, [src |-> CurrentFile, group |-> CurrentGroup,
                                  dest |-> dest])
  /\ moved_count' = CountMove(moved_count)
  /\ Advance
  /\ UNCHANGED << target, listing, dry_run, use_categories, files, file_groups,
                  ret, exit_code, errors, before, first, classVars >>

\* resolve the destination, shutil.move raises: print "Error moving", go on
MoveFail ==
  /\ pc = "file"
  /\ ~dry_run
  /\ destination' = ResolvedName(folders, CurrentGroup, CurrentFile)
  /\ errors' = errors \cup { CurrentFile }
  /\ Advance
  /\ UNCHANGED << fsVars, dry_run, use_categories, files, file_groups,
                  moved_count, ret, exit_code, plan, before, first, classVars >>

\* the final summary line and return True
Report ==
  /\ pc = "report"
  /\ ret' = "True"
  /\ pc' = "returned"
  /\ UNCHANGED << fsVars, dry_run, use_categories, files, file_groups, gi, fi,
                  destination, moved_count, exit_code, plan, errors, before,
                  first, classVars >>

\* main: if not success: sys.exit(1)
Exit ==
  /\ pc = "returned"
  /\ exit_code' = IF ret = "True" THEN 0 ELSE 1
  /\ pc' = "exited"
  /\ UNCHANGED << fsVars, dry_run, use_categories, files, file_groups, gi, fi,
                  destination, moved_count, ret, plan, errors, before, first,
                  classVars >>

\* the program is started a second time on what the first call left
SecondCall ==
  /\ pc \in { "exited", "raised" }
  /\ ~first.called
  /\ first' = [called |-> TRUE, dry_run |-> dry_run,
               use_categories |-> use_categories, ret |-> ret, pc |-> pc,
               plan |-> plan, errors |-> errors, files |-> files]
  /\ pc' = "idle"
  /\ dry_run' = FALSE
  /\ use_categories' = FALSE
  /\ files' = << >>
  /\ file_groups' = << >>
  /\ gi' = 0
  /\ fi' = 0
  /\ destination' = << >>
  /\ moved_count' = 0
  /\ ret' = "none"
  /\ exit_code' = -1
  /\ plan' = << >>
  /\ errors' = {}
  /\ UNCHANGED << fsVars, before, classVars >>

Next ==
  \/ \E d \in BOOLEAN, c \in BOOLEAN : Call(d, c)
  \/ ValidateFail
  \/ Enumerate
  \/ CreateFolder
  \/ WouldMove
  \/ MoveOk
  \/ MoveFail
  \/ Report
  \/ Exit
  \/ SecondCall

Spec == Init /\ [][Next]_vars

(***************************************************************************)
(* The classifier on its own: every extension of up to MaxExtLen           *)
(* characters over ExtAlphabet, and the empty extension, in both modes.    *)
(***************************************************************************)
ExtAlphabet == { "p", "P", "y", "Y", "c", "k", KelvinSign, "1" }

RECURSIVE StringsUpTo(_)
StringsUpTo(n) ==
  IF n = 0 THEN { << >> }
  ELSE LET shorter == StringsUpTo(n - 1)
       IN  shorter \cup { Append(s, ch) : s \in shorter, ch \in ExtAlphabet }

\* what Path.suffix can give: nothing, or a dot and at least one character
ExtPool == { << >> } \cup { <<".">> \o s : s \in StringsUpTo(MaxExtLen) \ { << >> } }

InitClassify ==
  /\ InitCall
  /\ target = "missing"
  /\ rootFiles = {}
  /\ listing = << >>
  /\ folders = << >>
  /\ before = [rootFiles |-> rootFiles, folders |-> folders]
  /\ extension \in ExtPool
  /\ by_category \in BOOLEAN
  /\ group_name = << >>

\* the grouping loop of organize_directory on one file's extension
Classify ==
  /\ group_name = << >>
  /\ group_name' = GroupOf(extension, by_category)
  /\ UNCHANGED << fsVars, callVars, before, first, extension, by_category >>

NextClassify == Classify

SpecClassify == InitClassify /\ [][NextClassify]_vars

(***************************************************************************)
(* Properties.                                                             *)
(***************************************************************************)
Fs == [rootFiles |-> rootFiles, folders |-> folders]

Finished == pc \in { "returned", "exited" }

\* C1: during and after a call with dry_run=True the files directly in the
\* directory, the sub-folders and the contents of every sub-folder are what
\* they were when the call started.
C1_DryRunLeavesFs == (pc # "idle" /\ dry_run) => Fs = before

\* a dry run that has reported moves into a folder that does not exist
C1_Witness ==
  /\ dry_run
  /\ pc = "returned"
  /\ ret = "True"
  /\ Len(plan) >= 2
  /\ \E i \in DOMAIN plan : plan[i].group \notin DOMAIN folders

\* C2: a non-dry run that follows a dry run of the same mode over the same
\* files, and in which no move fails, gives every file the group and the
\* final name the dry run reported.
C2_DryRunPlanIsRealPlan ==
  ( /\ first.called
    /\ first.dry_run
    /\ first.ret = "True"
    /\ ~dry_run
    /\ use_categories = first.use_categories
    /\ pc = "returned"
    /\ ret = "True"
    /\ files = first.files
    /\ errors = {} )
  => plan = first.plan

\* the smallest k >= 1 for which stem_k.ext is free among the names taken
FirstFree(name, taken) ==
  CHOOSE k \in 1..(Cardinality(taken) + 1) :
    /\ Candidate(name, k) \notin taken
    /\ \A j \in 1..(k - 1) : Candidate(name, j) \in taken

\* C3: the destination resolved for a file stem.ext is stem.ext when the
\* folder holds no entry of that name at the time of the check, and otherwise
\* stem_k.ext for the smallest k >= 1 with no entry stem_k.ext in the folder.
C3_CollisionResolution ==
  [][ pc = "file" =>
        LET taken == EntryNames(folders, CurrentGroup)
        IN  destination' =
              IF CurrentFile \notin taken THEN CurrentFile
              ELSE Candidate(CurrentFile, FirstFree(CurrentFile, taken)) ]_vars

\* a file whose name and whose stem_1 name were both taken got stem_2
C3_Witness ==
  /\ pc \in { "file", "folder", "report" }
  /\ destination = <<"a","_","2",".","t","x","t">>
  /\ \E i \in DOMAIN plan : plan[i].src = a_txt /\ plan[i].dest = destination

\* the files the move loop has gone through so far
RECURSIVE FilesBefore(_)
FilesBefore(g) == IF g = 0 THEN 0 ELSE Len(file_groups[g].files) + FilesBefore(g - 1)

Processed ==
  IF pc \in { "folder", "file", "raised" } THEN FilesBefore(gi - 1) + (fi - 1)
  ELSE Len(files)

InMoveLoop == pc \in { "folder", "file", "raised", "report", "returned", "exited" }

\* C4: in a non-dry run, in the move loop and at the final report, moved_count
\* is the number of files processed so far whose move raised no error, it is
\* at most the number of files found, and at the end it is the number of
\* files found minus the number of files whose move failed.
C4_MovedCount ==
  (~dry_run /\ InMoveLoop) =>
     /\ moved_count = Processed - Cardinality(errors)
     /\ moved_count <= Len(files)
     /\ pc \in { "report", "returned", "exited" } =>
          moved_count = Len(files) - Cardinality(errors)

\* a finished non-dry run with a move that succeeded and a move that failed
C4_Witness ==
  /\ ~dry_run
  /\ pc = "returned"
  /\ errors # {}
  /\ moved_count >= 1
  /\ moved_count < Len(files)

\* C5: a run in which a move has failed is not aborted: it goes on through
\* the files and groups that follow and returns True.
C5_FailedMoveNeverAborts ==
  (~dry_run /\ errors # {}) =>
     /\ pc # "raised"
     /\ Finished => ret = "True"

\* C6: when the target is missing or is not a directory the call returns
\* False having listed nothing and changed nothing, in both modes, and main
\* exits with 1; every other call that returns returns True, and main exits
\* with 0.
C6_Validation ==
  /\ (Finished /\ target # "dir") =>
        /\ ret = "False"
        /\ files = << >>
        /\ plan = << >>
        /\ Fs = before
  /\ (Finished /\ target = "dir") => ret = "True"
  /\ pc = "exited" => exit_code = (IF target # "dir" THEN 1 ELSE 0)

\* main has exited with 1 because the target is a regular file
C6_Witness ==
  /\ pc = "exited"
  /\ target = "file"
  /\ ret = "False"
  /\ exit_code = 1

\* the categories whose extension set holds e
CategoriesOf(e) ==
  { categories[i].name : i \in { j \in DOMAIN categories : e \in categories[j].extensions } }

\* C7: the group depends on the extension and the mode alone: in category
\* mode an extension found in the table, compared without regard to case,
\* gives its category; on a miss, and in extension mode always, a non-empty
\* extension gives the extension without its dot, upper-cased, followed by
\* _Files; the empty extension gives No_Extension.
C7_Classification ==
  group_name # << >> =>
     IF by_category /\ CategoriesOf(lower(extension)) # {}
     THEN group_name \in CategoriesOf(lower(extension))
     ELSE IF extension # << >>
     THEN group_name = upper(DropFirst(extension)) \o FilesSuffix
     ELSE group_name = NoExtension

\* C8: no file system error escapes a call as an exception: a call ends by
\* returning True or by returning False.
C8_NoExceptionEscapes == pc # "raised"

\* C9: a second call on what a first non-dry call with no failed move left
\* finds no regular file in the directory, raises no error on folder
\* creation, returns True and leaves the file system as it found it.
C9_SecondRunIsNoOp ==
  (first.called /\ ~first.dry_run /\ first.errors = {} /\ target = "dir") =>
     /\ rootFiles = {}
     /\ pc # "raised"
     /\ Finished => (ret = "True" /\ files = << >> /\ Fs = before)

\* the entries of a folder that came from the directory's file f
EntriesFrom(g, f) == { e \in folders[g] : e.src = f }

\* the plan line of the moved file f
PlanOf(f) == plan[CHOOSE i \in DOMAIN plan : plan[i].src = f]

\* C10 (state part): in a non-dry run every entry that was in a folder when
\* the call started is still there, no two files of the run have the same
\* destination, and every scanned file is at exactly one place: at its
\* resolved destination in its group folder once its move has succeeded, at
\* its original path otherwise.
C10_State ==
  (~dry_run /\ InMoveLoop) =>
     /\ \A g \in DOMAIN before.folders :
          g \in DOMAIN folders /\ before.folders[g] \subseteq folders[g]
     /\ \A i, j \in DOMAIN plan :
          (plan[i].group = plan[j].group /\ plan[i].dest = plan[j].dest) => i = j
     /\ \A k \in DOMAIN files :
          LET f == files[k]
          IN  IF \E i \in DOMAIN plan : plan[i].src = f
              THEN /\ f \notin rootFiles
                   /\ \A g \in DOMAIN folders :
                        EntriesFrom(g, f) =
                          IF g = PlanOf(f).group
                          THEN { [name |-> PlanOf(f).dest, src |-> f] }
                          ELSE {}
              ELSE /\ f \in rootFiles
                   /\ \A g \in DOMAIN folders : EntriesFrom(g, f) = {}

\* C10: with the organizer the only actor, every move of a non-dry run goes
\* to a path at which no entry existed when the move was issued, so that the
\* state part above holds throughout.
C10_MovesNeverOverwrite ==
  /\ []C10_State
  /\ [][ rootFiles' # rootFiles =>
           ~Exists(folders, CurrentGroup, destination') ]_vars

\* a finished non-dry run with a renamed file, a failed move and an entry
\* that was in the folder before
C10_Witness ==
  /\ ~dry_run
  /\ pc = "returned"
  /\ errors # {}
  /\ \E i \in DOMAIN plan :
       /\ plan[i].dest # plan[i].src
       /\ \E e \in folders[plan[i].group] :
            e.src = PreExisting /\ e.name = plan[i].src

====
